---- MODULE Spec2Model ----
(***************************************************************************)
(* Model of gmt/decorators.py: the keyword-argument decorators use_alias,  *)
(* kwargs_to_strings and parse_bools, and their composition.               *)
(*                                                                         *)
(* A Python value is a record with a type tag t and one payload field per  *)
(* type (the other fields hold defaults).  A Python str is a sequence of   *)
(* one-character strings, so that join and format are computed.            *)
(* A keyword dictionary is a function from a finite set of names to        *)
(* values, and so is a decorator's own **kwargs table.  A loop over        *)
(* table.items() runs in the dictionary's iteration order, which the code  *)
(* does not fix: the order is a permutation of the table's names, chosen   *)
(* at each call.                                                           *)
(***************************************************************************)
EXTENDS Integers, Sequences, FiniteSets, TLC

\* ---------------------------------------------------------------- bounds
MaxSeqLen == 2      \* longest list/tuple passed as a keyword value
MaxKwargs == 2      \* most keyword arguments in one call
MaxArgs == 2        \* most positional arguments in one call
MaxConversions == 1 \* most entries in a conversion table
MaxStackKwargs == 1 \* most keyword arguments in a call through two decorators

\* ---------------------------------------------------------------- values
PyBool(b) == [t |-> "bool", b |-> b, n |-> 0, chars |-> <<>>, items |-> <<>>]
PyInt(n) == [t |-> "int", b |-> FALSE, n |-> n, chars |-> <<>>, items |-> <<>>]
PyStr(s) == [t |-> "str", b |-> FALSE, n |-> 0, chars |-> s, items |-> <<>>]
PyList(xs) == [t |-> "list", b |-> FALSE, n |-> 0, chars |-> <<>>, items |-> xs]

\* isinstance(value, bool)
IsBool(value) == value.t = "bool"

\* gmt.utils.is_nonstr_iter: an iterable that is not a string
is_nonstr_iter(value) == value.t = "list"

\* one decimal digit as a character
DigitChar(d) == <<"0", "1", "2", "3", "4", "5", "6", "7", "8", "9">>[d + 1]

RECURSIVE Format(_)
\* '{}'.format(item) for a non-negative int item
Format(n) == IF n < 10 THEN <<DigitChar(n)>>
             ELSE Format(n \div 10) \o <<DigitChar(n % 10)>>

RECURSIVE Join(_, _)
\* sep.join('{}'.format(item) for item in value)
Join(sep, xs) ==
    IF Len(xs) = 0 THEN <<>>
    ELSE IF Len(xs) = 1 THEN Format(Head(xs))
    ELSE Format(Head(xs)) \o <<sep>> \o Join(sep, Tail(xs))

\* ---------------------------------------------------------- dictionaries
EmptyDict == [k \in {} |-> PyBool(FALSE)]

\* d[key] = value
DictSet(d, key, value) ==
    [k \in DOMAIN d \cup {key} |-> IF k = key THEN value ELSE d[k]]

\* d.pop(key), the dictionary that is left
DictDel(d, key) == [k \in DOMAIN d \ {key} |-> d[k]]

\* the orders in which d.items() can yield the names of d
Orders(S) ==
    {o \in [1..Cardinality(S) -> S] :
        \A i, j \in 1..Cardinality(S) : o[i] = o[j] => i = j}

\* ------------------------------------------------------------- use_alias
\* one iteration of the loop of use_alias's new_module:
\*     if alias in kwargs: kwargs[arg] = kwargs.pop(alias)
alias_step_keep(arg, alias, kwargs) ==
    IF alias \in DOMAIN kwargs
    THEN DictSet(kwargs, arg, kwargs[alias])
    ELSE kwargs

alias_step_canonical_wins(arg, alias, kwargs) ==
    IF alias \in DOMAIN kwargs
    THEN IF arg \in DOMAIN kwargs
         THEN DictDel(kwargs, alias)
         ELSE DictSet(DictDel(kwargs, alias), arg, kwargs[alias])
    ELSE kwargs

alias_step(arg, alias, kwargs) ==
    IF alias \in DOMAIN kwargs
    THEN DictSet(DictDel(kwargs, alias), arg, kwargs[alias])
    ELSE kwargs

RECURSIVE use_alias_first_only(_, _, _)
use_alias_first_only(aliases, order, kwargs) ==
    IF Len(order) = 0 THEN kwargs
    ELSE IF aliases[Head(order)] \in DOMAIN kwargs
         THEN alias_step(Head(order), aliases[Head(order)], kwargs)
         ELSE use_alias_first_only(aliases, Tail(order), kwargs)

RECURSIVE use_alias(_, _, _)
\* the loop `for arg, alias in aliases.items()` of use_alias's new_module,
\* run in the given order: the kwargs handed to module_func
use_alias(aliases, order, kwargs) ==
    IF Len(order) = 0 THEN kwargs
    ELSE use_alias(aliases, Tail(order),
                   alias_step(Head(order), aliases[Head(order)], kwargs))

\* ----------------------------------------------------------- parse_bools
\* one iteration of the loop of parse_bools's new_func over kwargs.items()
parse_bools_step_truthy(arg, value, new_kwargs) ==
    IF IsBool(value)
    THEN DictSet(new_kwargs, arg, PyStr(<<>>))
    ELSE DictSet(new_kwargs, arg, value)

parse_bools_step(arg, value, new_kwargs) ==
    IF IsBool(value)
    THEN IF value.b THEN DictSet(new_kwargs, arg, PyStr(<<>>)) ELSE new_kwargs
    ELSE DictSet(new_kwargs, arg, value)

RECURSIVE parse_bools_loop(_, _, _)
\* the loop `for arg, value in kwargs.items()` run in the given order
parse_bools_loop(kwargs, order, new_kwargs) ==
    IF Len(order) = 0 THEN new_kwargs
    ELSE parse_bools_loop(
             kwargs, Tail(order),
             parse_bools_step(Head(order), kwargs[Head(order)], new_kwargs))

\* new_kwargs as parse_bools's new_func hands it to module_func
parse_bools(kwargs, order) == parse_bools_loop(kwargs, order, EmptyDict)

\* ----------------------------------------------------- kwargs_to_strings
\* valid_conversions = ['bool', 'sequence', 'sequence_comma']
valid_conversions_no_comma == {"bool", "sequence"}

valid_conversions == {"bool", "sequence", "sequence_comma"}

\* separators = {'sequence': '/', 'sequence_comma': ','}
separators_swapped(fmt) == IF fmt = "sequence" THEN "," ELSE "/"

separators(fmt) == IF fmt = "sequence" THEN "/" ELSE ","

\* the assert loop of kwargs_to_strings: TRUE when no assertion fails
conversions_valid(conversions) ==
    \A arg \in DOMAIN conversions : conversions[arg] \in valid_conversions

\* one iteration of the loop of kwargs_to_strings's new_module
convert_step_no_isinstance(arg, fmt, kwargs) ==
    IF arg \notin DOMAIN kwargs THEN kwargs
    ELSE IF fmt = "bool"
         THEN IF kwargs[arg].b
              THEN DictSet(kwargs, arg, PyStr(<<>>))
              ELSE DictDel(kwargs, arg)
    ELSE IF fmt = "sequence" \/ fmt = "sequence_comma"
         THEN IF is_nonstr_iter(kwargs[arg])
              THEN DictSet(kwargs, arg,
                           PyStr(Join(separators(fmt), kwargs[arg].items)))
              ELSE kwargs
    ELSE kwargs

convert_step_keep_false(arg, fmt, kwargs) ==
    IF arg \notin DOMAIN kwargs THEN kwargs
    ELSE IF fmt = "bool"
         THEN IF IsBool(kwargs[arg]) /\ kwargs[arg].b
              THEN DictSet(kwargs, arg, PyStr(<<>>))
              ELSE kwargs
    ELSE IF fmt = "sequence" \/ fmt = "sequence_comma"
         THEN IF is_nonstr_iter(kwargs[arg])
              THEN DictSet(kwargs, arg,
                           PyStr(Join(separators(fmt), kwargs[arg].items)))
              ELSE kwargs
    ELSE kwargs

convert_step(arg, fmt, kwargs) ==
    IF arg \notin DOMAIN kwargs THEN kwargs
    ELSE IF fmt = "bool"
         THEN IF IsBool(kwargs[arg])
              THEN IF kwargs[arg].b
                   THEN DictSet(kwargs, arg, PyStr(<<>>))
                   ELSE DictDel(kwargs, arg)
              ELSE kwargs
    ELSE IF fmt = "sequence" \/ fmt = "sequence_comma"
         THEN IF is_nonstr_iter(kwargs[arg])
              THEN DictSet(kwargs, arg,
                           PyStr(Join(separators(fmt), kwargs[arg].items)))
              ELSE kwargs
    ELSE kwargs

kwargs_to_strings_every_bool(conversions, order, kwargs) ==
    parse_bools(kwargs, CHOOSE o \in Orders(DOMAIN kwargs) : TRUE)

RECURSIVE kwargs_to_strings(_, _, _)
\* the loop `for arg, fmt in conversions.items()` of kwargs_to_strings's
\* new_module, run in the given order: the kwargs handed to module_func
kwargs_to_strings(conversions, order, kwargs) ==
    IF Len(order) = 0 THEN kwargs
    ELSE kwargs_to_strings(
             conversions, Tail(order),
             convert_step(Head(order), conversions[Head(order)], kwargs))

\* ---------------------------------------------------------------- inputs
\* canonical option codes, and every keyword name a call or a table may use
Codes == {"R", "J"}
Keys == Codes \cup {"region", "projection"}

\* the i-th item of a list value
ItemAt(i) == 3 * i * i

\* the lists [], [3], [3, 12], ...
Lists == {PyList([i \in 1..n |-> ItemAt(i)]) : n \in 0..MaxSeqLen}

Values == {PyBool(TRUE), PyBool(FALSE), PyStr(<<"5", "/", "6">>), PyInt(7)}
              \cup Lists

\* the keyword arguments of one call with at most n of them
KwargsUpTo(n) ==
    UNION {[S -> Values] : S \in {T \in SUBSET Keys : Cardinality(T) <= n}}

\* the positional arguments of one call: (), (123,), (123, 124), ...
ArgsSets == {[i \in 1..n |-> PyInt(122 + i)] : n \in 0..MaxArgs}

\* use_alias(**aliases): desired argument name -> alias
AliasTables == UNION {[S -> Keys] : S \in SUBSET Codes}

\* the conversion names a table may be written with
Kinds == {"bool", "sequence", "sequence_comma", "unsupported"}

\* kwargs_to_strings(**conversions): argument name -> conversion
ConversionTables ==
    UNION {[S -> Kinds] :
              S \in {T \in SUBSET Keys : Cardinality(T) <= MaxConversions}}

\* ----------------------------------------------------------------- state
VARIABLES
    wrapper,      \* the decorator stack applied to module_func
    aliases,      \* the table given to use_alias
    conversions,  \* the table given to kwargs_to_strings
    pc,           \* "init", "error", "ready" or "called"
    args_in,      \* positional arguments of the current call
    kwargs_in,    \* keyword arguments of the current call
    args_out,     \* positional arguments module_func received
    kwargs_out    \* keyword arguments module_func received

vars == <<wrapper, aliases, conversions, pc,
          args_in, kwargs_in, args_out, kwargs_out>>

Init ==
    /\ wrapper = "none"
    /\ aliases = EmptyDict
    /\ conversions = EmptyDict
    /\ pc = "init"
    /\ args_in = <<>>
    /\ kwargs_in = EmptyDict
    /\ args_out = <<>>
    /\ kwargs_out = EmptyDict

\* @use_alias(**al) applied to module_func
DecorateAlias ==
    /\ pc = "init"
    /\ \E al \in AliasTables : aliases' = al
    /\ wrapper' = "use_alias"
    /\ pc' = "ready"
    /\ UNCHANGED <<conversions, args_in, kwargs_in, args_out, kwargs_out>>

\* @kwargs_to_strings(**cv) applied to module_func: the assertions run
\* before the decorator `converter` exists
DecorateConverter ==
    /\ pc = "init"
    /\ \E cv \in ConversionTables :
          /\ conversions' = cv
          /\ pc' = IF conversions_valid(cv) THEN "ready" ELSE "error"
    /\ wrapper' = "kwargs_to_strings"
    /\ UNCHANGED <<aliases, args_in, kwargs_in, args_out, kwargs_out>>

\* @parse_bools applied to module_func
DecorateBools ==
    /\ pc = "init"
    /\ wrapper' = "parse_bools"
    /\ pc' = "ready"
    /\ UNCHANGED <<aliases, conversions,
                   args_in, kwargs_in, args_out, kwargs_out>>

\* @use_alias(**al) above @kwargs_to_strings(**cv)
DecorateChain ==
    /\ pc = "init"
    /\ \E al \in AliasTables : aliases' = al
    /\ \E cv \in ConversionTables :
          /\ conversions' = cv
          /\ pc' = IF conversions_valid(cv) THEN "ready" ELSE "error"
    /\ wrapper' = "alias_then_convert"
    /\ UNCHANGED <<args_in, kwargs_in, args_out, kwargs_out>>

\* @kwargs_to_strings(**cv) above @use_alias(**al)
DecorateReversed ==
    /\ pc = "init"
    /\ \E al \in AliasTables : aliases' = al
    /\ \E cv \in ConversionTables :
          /\ conversions' = cv
          /\ pc' = IF conversions_valid(cv) THEN "ready" ELSE "error"
    /\ wrapper' = "convert_then_alias"
    /\ UNCHANGED <<args_in, kwargs_in, args_out, kwargs_out>>

\* the kwargs that can reach module_func through the decorator stack, one
\* per iteration order of the tables: the outer decorator's new_module runs
\* first and calls the inner one as module_func
Handed_inner_first(kwargs) ==
    CASE wrapper = "use_alias" ->
             {use_alias(aliases, oa, kwargs) : oa \in Orders(DOMAIN aliases)}
      [] wrapper = "kwargs_to_strings" ->
             {kwargs_to_strings(conversions, oc, kwargs) :
                 oc \in Orders(DOMAIN conversions)}
      [] wrapper = "parse_bools" ->
             {parse_bools(kwargs, ok) : ok \in Orders(DOMAIN kwargs)}
      [] wrapper = "alias_then_convert" ->
             {use_alias(aliases, oa,
                        kwargs_to_strings(conversions, oc, kwargs)) :
                 oa \in Orders(DOMAIN aliases),
                 oc \in Orders(DOMAIN conversions)}
      [] wrapper = "convert_then_alias" ->
             {kwargs_to_strings(conversions, oc,
                                use_alias(aliases, oa, kwargs)) :
                 oa \in Orders(DOMAIN aliases),
                 oc \in Orders(DOMAIN conversions)}

Handed(kwargs) ==
    CASE wrapper = "use_alias" ->
             {use_alias(aliases, oa, kwargs) : oa \in Orders(DOMAIN aliases)}
      [] wrapper = "kwargs_to_strings" ->
             {kwargs_to_strings(conversions, oc, kwargs) :
                 oc \in Orders(DOMAIN conversions)}
      [] wrapper = "parse_bools" ->
             {parse_bools(kwargs, ok) : ok \in Orders(DOMAIN kwargs)}
      [] wrapper = "alias_then_convert" ->
             {kwargs_to_strings(conversions, oc,
                                use_alias(aliases, oa, kwargs)) :
                 oa \in Orders(DOMAIN aliases),
                 oc \in Orders(DOMAIN conversions)}
      [] wrapper = "convert_then_alias" ->
             {use_alias(aliases, oa,
                        kwargs_to_strings(conversions, oc, kwargs)) :
                 oa \in Orders(DOMAIN aliases),
                 oc \in Orders(DOMAIN conversions)}

\* the positional arguments new_module passes on: module_func(*args, ...)
pass_args(args) == args

\* the decorated function called with the given arguments, up to
\* module_func's entry
Invoke(args, kwargs) ==
    /\ kwargs_out' \in Handed(kwargs)
    /\ args_in' = args
    /\ kwargs_in' = kwargs
    /\ args_out' = pass_args(args)
    /\ pc' = "called"
    /\ UNCHANGED <<wrapper, aliases, conversions>>

\* the keyword arguments of a call of a function under a single decorator
CallKwargs == KwargsUpTo(MaxKwargs)

\* the keyword arguments of a call of a function under two decorators
StackedKwargs == KwargsUpTo(MaxStackKwargs)

\* one call of a function under a single decorator
Call ==
    /\ pc = "ready"
    /\ \E args \in ArgsSets, kwargs \in CallKwargs : Invoke(args, kwargs)

\* one call of a function under two decorators
CallStacked ==
    /\ pc = "ready"
    /\ \E args \in ArgsSets, kwargs \in StackedKwargs : Invoke(args, kwargs)

\* module_func returns; the call's arguments are dropped
Return ==
    /\ pc = "called"
    /\ pc' = "ready"
    /\ args_in' = <<>>
    /\ kwargs_in' = EmptyDict
    /\ args_out' = <<>>
    /\ kwargs_out' = EmptyDict
    /\ UNCHANGED <<wrapper, aliases, conversions>>

NextAlias == DecorateAlias \/ Call \/ Return
NextConverter == DecorateConverter \/ Call \/ Return
NextBools == DecorateBools \/ Call \/ Return
NextChain == DecorateChain \/ DecorateReversed \/ CallStacked \/ Return

SpecAlias == Init /\ [][NextAlias]_vars
SpecConverter == Init /\ [][NextConverter]_vars
SpecBools == Init /\ [][NextBools]_vars
SpecChain == Init /\ [][NextChain]_vars

\* ------------------------------------------------------------ properties
\* module_func has been entered through the given decorator stack
Entered(w) == pc = "called" /\ wrapper = w

\* an alias table whose aliases are pairwise distinct and none of which is
\* also a desired argument name of the table
WellFormed(al) ==
    /\ \A c, d \in DOMAIN al : al[c] = al[d] => c = d
    /\ \A c \in DOMAIN al : al[c] \notin DOMAIN al

\* the dictionary {key: value}
Single(key, value) == [k \in {key} |-> value]

\* C1 as stated, for any alias table: a call with only {friendly: v} hands
\* module_func the same mapping as a call with only {canonical: v}.
C1_AnyTable ==
    Entered("use_alias") =>
        \A c \in DOMAIN aliases : \A v \in Values :
            kwargs_in = Single(aliases[c], v) =>
                \A o \in Orders(DOMAIN aliases) :
                    kwargs_out = use_alias(aliases, o, Single(c, v))

\* C1 amended: in an alias table whose friendly names are pairwise distinct
\* and none of which is a canonical code of the table, a call with only
\* {friendly: v} hands module_func the same mapping as a call with only
\* {canonical: v}.
C1_AliasSameAsCanonical ==
    (Entered("use_alias") /\ WellFormed(aliases)) =>
        \A c \in DOMAIN aliases : \A v \in Values :
            kwargs_in = Single(aliases[c], v) =>
                \A o \in Orders(DOMAIN aliases) :
                    kwargs_out = use_alias(aliases, o, Single(c, v))

C1_Witness ==
    /\ Entered("use_alias")
    /\ WellFormed(aliases)
    /\ Cardinality(DOMAIN aliases) = 2
    /\ aliases["R"] = "region"
    /\ kwargs_in = Single("region", PyList(<<3, 12>>))
    /\ kwargs_out = Single("R", PyList(<<3, 12>>))

\* C2 as stated, for any alias table: when a call supplies both the
\* canonical key and the (other) friendly key, the result holds the
\* friendly-named value under the canonical key, no longer contains the
\* friendly key, and equals the result of the call without the canonical key.
C2_AnyTable ==
    Entered("use_alias") =>
        \A c \in DOMAIN aliases :
            (/\ aliases[c] # c
             /\ c \in DOMAIN kwargs_in
             /\ aliases[c] \in DOMAIN kwargs_in) =>
                /\ c \in DOMAIN kwargs_out
                /\ kwargs_out[c] = kwargs_in[aliases[c]]
                /\ aliases[c] \notin DOMAIN kwargs_out
                /\ \A o \in Orders(DOMAIN aliases) :
                       kwargs_out = use_alias(aliases, o, DictDel(kwargs_in, c))

\* C2 amended: in an alias table whose friendly names are pairwise distinct
\* and none of which is a canonical code of the table, when a call supplies
\* both the canonical key and the friendly key, the result holds the
\* friendly-named value under the canonical key, no longer contains the
\* friendly key, and equals the result of the call without the canonical key.
C2_FriendlyWins ==
    (Entered("use_alias") /\ WellFormed(aliases)) =>
        \A c \in DOMAIN aliases :
            (/\ aliases[c] # c
             /\ c \in DOMAIN kwargs_in
             /\ aliases[c] \in DOMAIN kwargs_in) =>
                /\ c \in DOMAIN kwargs_out
                /\ kwargs_out[c] = kwargs_in[aliases[c]]
                /\ aliases[c] \notin DOMAIN kwargs_out
                /\ \A o \in Orders(DOMAIN aliases) :
                       kwargs_out = use_alias(aliases, o, DictDel(kwargs_in, c))

C2_Witness ==
    /\ Entered("use_alias")
    /\ WellFormed(aliases)
    /\ "J" \in DOMAIN aliases
    /\ aliases["J"] = "projection"
    /\ DOMAIN kwargs_in = {"J", "projection"}
    /\ kwargs_in["J"] = PyInt(7)
    /\ kwargs_in["projection"] = PyStr(<<"5", "/", "6">>)
    /\ kwargs_out = Single("J", PyStr(<<"5", "/", "6">>))

\* C3: under kwargs_to_strings, for every option code declared 'bool' and
\* present in the call, True becomes the empty string, False removes the
\* key, and a non-boolean value is passed through unchanged.
C3_BoolKind ==
    Entered("kwargs_to_strings") =>
        \A k \in DOMAIN conversions \cap DOMAIN kwargs_in :
            conversions[k] = "bool" =>
                /\ kwargs_in[k] = PyBool(TRUE) =>
                       k \in DOMAIN kwargs_out /\ kwargs_out[k] = PyStr(<<>>)
                /\ kwargs_in[k] = PyBool(FALSE) => k \notin DOMAIN kwargs_out
                /\ kwargs_in[k].t # "bool" =>
                       k \in DOMAIN kwargs_out /\ kwargs_out[k] = kwargs_in[k]

C3_Witness ==
    /\ Entered("kwargs_to_strings")
    /\ conversions = Single("R", "bool")
    /\ DOMAIN kwargs_in = {"R", "J"}
    /\ kwargs_in["R"] = PyBool(FALSE)
    /\ kwargs_in["J"] = PyBool(FALSE)
    /\ kwargs_out = Single("J", PyBool(FALSE))

\* C4: under kwargs_to_strings, for every option code declared 'sequence'
\* (resp. 'sequence_comma') and present in the call, a list is replaced by
\* the string forms of its items in order joined with '/' (resp. ','), so
\* [3, 12] becomes '3/12' (resp. '3,12'), and a string is left unchanged.
C4_SequenceKinds ==
    Entered("kwargs_to_strings") =>
        \A k \in DOMAIN conversions \cap DOMAIN kwargs_in :
            conversions[k] \in {"sequence", "sequence_comma"} =>
                LET sep == IF conversions[k] = "sequence" THEN "/" ELSE ","
                IN /\ kwargs_in[k].t = "list" =>
                          /\ k \in DOMAIN kwargs_out
                          /\ kwargs_out[k] = PyStr(Join(sep, kwargs_in[k].items))
                   /\ kwargs_in[k] = PyList(<<3, 12>>) =>
                          kwargs_out[k] = PyStr(<<"3", sep, "1", "2">>)
                   /\ kwargs_in[k] = PyList(<<>>) => kwargs_out[k] = PyStr(<<>>)
                   /\ kwargs_in[k].t = "str" =>
                          k \in DOMAIN kwargs_out /\ kwargs_out[k] = kwargs_in[k]

C4_Witness ==
    /\ Entered("kwargs_to_strings")
    /\ conversions = Single("J", "sequence_comma")
    /\ kwargs_in = Single("J", PyList(<<3, 12>>))
    /\ kwargs_out = Single("J", PyStr(<<"3", ",", "1", "2">>))

\* C5: under kwargs_to_strings, every keyword argument whose name is not in
\* the conversion table reaches module_func with its original value, no key
\* is added for a table entry absent from the call, and the positional
\* arguments reach module_func unchanged and in the same order.
C5_Frame ==
    Entered("kwargs_to_strings") =>
        /\ \A k \in DOMAIN kwargs_in \ DOMAIN conversions :
               k \in DOMAIN kwargs_out /\ kwargs_out[k] = kwargs_in[k]
        /\ \A k \in DOMAIN conversions \ DOMAIN kwargs_in :
               k \notin DOMAIN kwargs_out
        /\ DOMAIN kwargs_out \subseteq DOMAIN kwargs_in
        /\ args_out = args_in

C5_Witness ==
    /\ Entered("kwargs_to_strings")
    /\ conversions = Single("R", "bool")
    /\ DOMAIN kwargs_in = {"J", "region"}
    /\ kwargs_in["J"] = PyBool(TRUE)
    /\ kwargs_in["region"] = PyList(<<3, 12>>)
    /\ kwargs_out = kwargs_in
    /\ args_in = <<PyInt(123), PyInt(124)>>
    /\ args_out = <<PyInt(123), PyInt(124)>>

\* C6: kwargs_to_strings fails at construction exactly when some option code
\* of the table is mapped to a kind outside {'bool', 'sequence',
\* 'sequence_comma'}; after a failure there is no wrapped function, so none
\* is ever ready or called with such a table.
C6_ConstructionValidation ==
    LET AllValid == \A k \in DOMAIN conversions :
                        conversions[k] \in {"bool", "sequence", "sequence_comma"}
    IN wrapper = "kwargs_to_strings" =>
           /\ pc = "error" <=> ~AllValid
           /\ pc \in {"ready", "called"} <=> AllValid
           /\ pc = "error" => kwargs_out = EmptyDict /\ args_out = <<>>

C6_Witness ==
    /\ wrapper = "kwargs_to_strings"
    /\ pc = "error"
    /\ conversions = Single("R", "unsupported")

\* C7: under parse_bools, every keyword argument that is True reaches
\* module_func as the empty string, every one that is False is absent, every
\* non-boolean one is unchanged, and the mapping equals that of
\* kwargs_to_strings with every keyword of the call declared 'bool'.
C7_ParseBools ==
    Entered("parse_bools") =>
        /\ \A k \in DOMAIN kwargs_in :
               /\ kwargs_in[k] = PyBool(TRUE) =>
                      k \in DOMAIN kwargs_out /\ kwargs_out[k] = PyStr(<<>>)
               /\ kwargs_in[k] = PyBool(FALSE) => k \notin DOMAIN kwargs_out
               /\ kwargs_in[k].t # "bool" =>
                      k \in DOMAIN kwargs_out /\ kwargs_out[k] = kwargs_in[k]
        /\ DOMAIN kwargs_out \subseteq DOMAIN kwargs_in
        /\ \A o \in Orders(DOMAIN kwargs_in) :
               kwargs_out = kwargs_to_strings([k \in DOMAIN kwargs_in |-> "bool"],
                                              o, kwargs_in)

C7_Witness ==
    /\ Entered("parse_bools")
    /\ DOMAIN kwargs_in = {"R", "region"}
    /\ kwargs_in["R"] = PyBool(FALSE)
    /\ kwargs_in["region"] = PyBool(TRUE)
    /\ kwargs_out = Single("region", PyStr(<<>>))

\* C8 as stated: through use_alias above kwargs_to_strings, no boolean value
\* is ever handed to module_func.
C8_NoBooleanHandedOver ==
    Entered("alias_then_convert") =>
        \A k \in DOMAIN kwargs_out : kwargs_out[k].t # "bool"

\* C8 amended: through use_alias above kwargs_to_strings, no boolean value
\* is handed to module_func under a key that the conversion table declares
\* 'bool'.
C8_NoBooleanUnderBoolKey ==
    Entered("alias_then_convert") =>
        \A k \in DOMAIN kwargs_out \cap DOMAIN conversions :
            conversions[k] = "bool" => kwargs_out[k].t # "bool"

C8_Witness ==
    /\ Entered("alias_then_convert")
    /\ aliases = Single("R", "region")
    /\ conversions = Single("R", "bool")
    /\ kwargs_in = Single("region", PyBool(TRUE))
    /\ kwargs_out = Single("R", PyStr(<<>>))

C10_OrderIndependent ==
    (Entered("use_alias") /\ WellFormed(aliases)) =>
        \A o \in Orders(DOMAIN aliases) :
            kwargs_out = use_alias(aliases, o, kwargs_in)

C10_Witness ==
    /\ Entered("use_alias")
    /\ WellFormed(aliases)
    /\ Cardinality(DOMAIN aliases) = 2
    /\ DOMAIN kwargs_in = {aliases["R"], aliases["J"]}
    /\ kwargs_in[aliases["R"]] # kwargs_in[aliases["J"]]
    /\ DOMAIN kwargs_out = {"R", "J"}

\* C10, second half: without that precondition a state is reachable in
\* which another processing order hands module_func a different mapping
\* (this predicate is reachable under SpecAlias).
C10_OrderDependent ==
    /\ Entered("use_alias")
    /\ ~WellFormed(aliases)
    /\ \E o \in Orders(DOMAIN aliases) :
           kwargs_out # use_alias(aliases, o, kwargs_in)

====
